---- MODULE Spec2Model ----
(***************************************************************************)
(* Model of the file-tree indexer and its companions:                      *)
(*   Spec         src/src/file_tree.rs, print_tree.rs, main.rs: the        *)
(*                recursive builder FileTree::new / file_explorer over a   *)
(*                filesystem, the read-only query surface, the listing     *)
(*                policies of the usage command, and the parallel          *)
(*                fold/reduce of find_duplicates;                          *)
(*   FairSpecLink the builder alone over filesystems holding symbolic      *)
(*                links back to an ancestor directory;                     *)
(*   SpecSize     src/src/size.rs: Size displayed and added;               *)
(*   SpecShell    src/src/interface.rs: the key events of the shell.       *)
(***************************************************************************)
EXTENDS Integers, Sequences, FiniteSets, TLC

\* ---------------------------------------------------------------- bounds
\* Total number of filesystem objects below and including the root.
MaxNodes == 4
\* Longest file content, in bytes.
MaxFileLen == 1
\* Number of parallel workers folding the signature table.
MaxWorkers == 2

\* Number of symbolic links the OS follows while resolving one path.
MaxSymlinks == 2

\* The file names a directory entry may bear, and the byte files are made of.
Names == {1, 2}
Bytes == {0}
Workers == 1..MaxWorkers

\* ------------------------------------------------------- generic helpers
None == {}
Some(x) == {x}
Unwrap(o) == CHOOSE x \in o : TRUE

Range(s) == {s[i] : i \in 1..Len(s)}

RECURSIVE SeqsUpTo(_, _)
SeqsUpTo(S, n) ==
    IF n = 0 THEN {<<>>}
    ELSE LET shorter == SeqsUpTo(S, n - 1)
         IN  shorter \cup {Append(s, x) : s \in {t \in shorter : Len(t) = n - 1}, x \in S}

\* Sequences of distinct elements of S (every enumeration order of every subset).
DistinctSeqs(S) ==
    {s \in SeqsUpTo(S, Cardinality(S)) : Cardinality(Range(s)) = Len(s)}

RECURSIVE SumSeq(_)
SumSeq(s) == IF s = <<>> THEN 0 ELSE Head(s) + SumSeq(Tail(s))

\* ----------------------------------------------------------- filesystem
\* The path handed to FileTree::new; entry.path() of a directory entry is
\* the directory's path joined with the entry's name.
RootPath == <<>>
Join(p, name) == Append(p, name)

Contents == SeqsUpTo(Bytes, MaxFileLen)

\* What the OS answers for one path:
\*   kind "file"    regular file (readable: File::open / read succeed)
\*   kind "dir"     directory    (readable: read_dir succeeds)
\*   kind "other"   neither file nor directory (fifo, socket, device)
\*   kind "denied"  fs::metadata fails with PermissionDenied
\*   kind "missing" fs::metadata fails with NotFound
\*   kind "loop"    fs::metadata fails having followed too many links
FileObj(c, r) == [kind |-> "file", content |-> c, entries |-> <<>>, readable |-> r]
DirObj(es, r) == [kind |-> "dir", content |-> <<>>, entries |-> es, readable |-> r]
LeafObj(k)    == [kind |-> k, content |-> <<>>, entries |-> <<>>, readable |-> FALSE]

LeafObjects ==
    {FileObj(c, TRUE) : c \in Contents} \cup {FileObj(<<>>, FALSE)}
    \cup {DirObj(<<>>, TRUE), DirObj(<<>>, FALSE)}
    \cup {LeafObj("other"), LeafObj("denied"), LeafObj("missing")}

\* The sets of paths a filesystem of at most n objects may hold: the root,
\* and with every path but the root its parent directory.
RECURSIVE PathSets(_)
PathSets(n) ==
    IF n = 1 THEN {{RootPath}}
    ELSE LET prev == PathSets(n - 1)
         IN  prev \cup UNION { UNION { {S \cup {Join(p, name)} : name \in Names} : p \in S }
                               : S \in {T \in prev : Cardinality(T) = n - 1} }

ChildNames(S, p) == {name \in Names : Join(p, name) \in S}

\* Every order in which read_dir may yield the names of S.
EnumerationOrders(S) == {es \in DistinctSeqs(S) : Len(es) = Cardinality(S)}

\* What the OS may answer for p when the paths S exist: a path with
\* entries below it is a directory that can be read.
ObjectsAt(S, p) ==
    IF ChildNames(S, p) = {} THEN LeafObjects
    ELSE {DirObj(es, TRUE) : es \in EnumerationOrders(ChildNames(S, p))}

RECURSIVE Assignments(_, _)
Assignments(S, todo) ==
    IF todo = {} THEN {<<>>}
    ELSE LET p == CHOOSE q \in todo : TRUE
         IN  {(p :> o) @@ f : o \in ObjectsAt(S, p), f \in Assignments(S, todo \ {p})}

\* The filesystems holding exactly the paths S, as functions from the
\* paths that exist to what the OS answers for them.
FileSystems(S) == Assignments(S, S)

\* A symbolic link to a directory above it.
LinkObj(target) ==
    [kind |-> "link", content |-> <<>>, entries |-> <<>>, readable |-> FALSE,
     target |-> target]
Ancestors(p) == {SubSeq(p, 1, n) : n \in 0..(Len(p) - 1)}

\* The filesystems holding exactly the paths S in which a path without
\* entries below it may also be a link to one of its ancestors; what the
\* files hold plays no part in them, and they are empty.
LinkedObjectsAt(S, p) ==
    IF ChildNames(S, p) = {}
    THEN {o \in LeafObjects : o.content = <<>>} \cup {LinkObj(t) : t \in Ancestors(p)}
    ELSE ObjectsAt(S, p)

RECURSIVE LinkedAssignments(_, _)
LinkedAssignments(S, todo) ==
    IF todo = {} THEN {<<>>}
    ELSE LET p == CHOOSE q \in todo : TRUE
         IN  {(p :> o) @@ f : o \in LinkedObjectsAt(S, p),
                              f \in LinkedAssignments(S, todo \ {p})}

LinkedFileSystems(S) == LinkedAssignments(S, S)

\* Path resolution by the OS: the components of rest are looked up one by
\* one from the directory at; a link is followed to its target, and the
\* resolution fails once more than MaxSymlinks links were followed.
RECURSIVE Walk(_, _, _, _)
Walk(f, at, rest, followed) ==
    IF rest = <<>> THEN [ok |-> TRUE, at |-> at, kind |-> ""]
    ELSE LET next == Join(at, Head(rest)) IN
         IF next \notin DOMAIN f THEN [ok |-> FALSE, at |-> at, kind |-> "missing"]
         ELSE IF f[next].kind = "link"
              THEN IF followed = MaxSymlinks
                   THEN [ok |-> FALSE, at |-> at, kind |-> "loop"]
                   ELSE Walk(f, f[next].target, Tail(rest), followed + 1)
         ELSE Walk(f, next, Tail(rest), followed)

\* fs::metadata(path), which follows links: what the OS answers for the
\* object the path resolves to, or the failure of the resolution.
metadata(f, path) ==
    LET found == Walk(f, RootPath, path, 0)
    IN  IF found.ok THEN f[found.at] ELSE LeafObj(found.kind)

\* entry.path() with the directory's path resolved first.
dir_entry_path_canonical(f, dir, name) == Join(Walk(f, RootPath, dir, 0).at, name)

\* entry.path(): the path given to read_dir joined with the entry's name.
dir_entry_path(f, dir, name) == Join(dir, name)

\* ------------------------------------------------------------ signature
\* Hash state of the streaming digest and its update with one byte.  The
\* digest stands for Md5 on the bounded contents: one byte wide.
DigestInit == 7
DigestInput(h, byte) == (h * 31 + byte + 1) % 256

RECURSIVE DigestOf(_, _)
DigestOf(h, bytes) ==
    IF bytes = <<>> THEN h ELSE DigestOf(DigestInput(h, Head(bytes)), Tail(bytes))

HexChars == <<"0", "1", "2", "3", "4", "5", "6", "7",
              "8", "9", "a", "b", "c", "d", "e", "f">>
HexChar(n) == HexChars[n + 1]
\* ASCII code of a lower-case hexadecimal character.
AsciiOfHex(n) == IF n < 10 THEN 48 + n ELSE 97 + (n - 10)

\* hasher.result_str(): the digest as a hexadecimal string; as_bytes() is
\* the sequence of the ASCII codes of its characters.
result_str_bytes(h) == <<AsciiOfHex(h \div 16), AsciiOfHex(h % 16)>>

\* hex::encode: two hexadecimal characters per input byte.
RECURSIVE encode(_)
encode(bytes) ==
    IF bytes = <<>> THEN <<>>
    ELSE <<HexChar(Head(bytes) \div 16), HexChar(Head(bytes) % 16)>> \o encode(Tail(bytes))

\* calculate_signature on a readable file with the given content.
calculate_signature(content) == encode(result_str_bytes(DigestOf(DigestInit, content)))

\* ------------------------------------------------------------ EntryNode
File(size) == [tag |-> "File", size |-> size]
Directory(children) == [tag |-> "Directory", children |-> children]

Ok(tree) == [ok |-> TRUE, tree |-> tree]
Err(kind) == [ok |-> FALSE, kind |-> kind]

\* Insertion into a HashMap: the last write for a key wins.
Insert(m, k, v) == [x \in (DOMAIN m) \cup {k} |-> IF x = k THEN v ELSE m[x]]
EmptyMap == <<>>

\* map.insert(path, EntryNode::File(Size::new(metadata.len())))
InsertFile(m, path, len) == Insert(m, path, File(len))

\* The signature recorded only when the read loop saw at least one byte.
InsertSignatureIfRead(sigs, path, content) ==
    IF content = <<>> THEN sigs ELSE Insert(sigs, path, calculate_signature(content))

\* signatures.insert(path, signature)
InsertSignature(sigs, path, content) == Insert(sigs, path, calculate_signature(content))

\* The loop leaving the insertion to the callee.
InsertEntryByCallee(m, entry_path, entry_node) == m

\* map.insert(entry_path, entry_node) in the loop of file_explorer
InsertEntry(m, entry_path, entry_node) == Insert(m, entry_path, entry_node)

\* FileTree::new leaving the insertion of the root to file_explorer.
InsertRootByCallee(m, root, root_entry) == m

\* map.insert(root, root_entry) in FileTree::new
InsertRoot(m, root, root_entry) == Insert(m, root, root_entry)

\* The failure of fs::metadata wrapped in a new error of kind Other.
MetadataErrorWrapped(kind) == "Other"

\* The io::ErrorKind of a failed fs::metadata.
MetadataErrorKind(kind) ==
    CASE kind = "missing" -> "NotFound"
      [] kind = "loop"    -> "FilesystemLoop"
      [] OTHER            -> "PermissionDenied"

\* fs::metadata(path) succeeded.
metadata_ok(o) == o.kind \notin {"missing", "denied", "loop"}

\* Whatever is not a file taken for a directory.
is_not_file(o) == o.kind # "file"

\* metadata.is_file() and metadata.is_dir() on a successful fs::metadata.
is_file(o) == o.kind = "file"
is_dir(o) == o.kind = "dir"

\* ------------------------------------------------------------------ Size
\* Size(u64): the largest byte count.  The 64 bits of u64 are scaled to
\* the 31 bits the integers of TLC offer; sums are computed without ever
\* leaving that range.
U64Max == 2147483647

units == <<<<"B">>, <<"K", "B">>, <<"M", "B">>, <<"G", "B">>, <<"T", "B">>,
           <<"P", "B">>, <<"E", "B">>, <<"Z", "B">>, <<"Y", "B">>>>

RECURSIVE Pow1024(_)
Pow1024(k) == IF k = 0 THEN 1 ELSE 1024 * Pow1024(k - 1)

\* The loop of fmt leaving while the scaled value exceeds 1024 only.
scale_above(bytes, index) ==
    LET scaled[i \in 0..Len(units)] ==
            IF i < Len(units) - 1 /\ bytes \div Pow1024(i) > 1024
            THEN scaled[i + 1] ELSE i
    IN  scaled[index]

\* The loop of fmt: file_size, first self.0 as f64, is divided by 1024.0
\* while it is at least 1024.0 and a larger unit is left; the result is the
\* index reached.  Every value is bytes / 1024^index exactly, the division
\* by a power of two being exact on an f64 below 2^53.
scale(bytes, index) ==
    LET scaled[i \in 0..Len(units)] ==
            IF i < Len(units) - 1 /\ bytes \div Pow1024(i) >= 1024
            THEN scaled[i + 1] ELSE i
    IN  scaled[index]

\* (file_size * 100.0).round(), in hundredths: file_size is q + r / 1024^index;
\* 100 * r / 1024^index is rounded half away from zero, the product taken
\* in two halves of 15 bits of r scaled to 30 bits.
rounded_hundredths(bytes, index) ==
    LET q  == bytes \div Pow1024(index)
        r  == bytes % Pow1024(index)
        n  == r * Pow1024(3 - index)
        nh == n \div 32768
        nl == n % 32768
        a  == 100 * nh + (100 * nl) \div 32768
    IN  100 * q + (a + 16384) \div 32768

Digit(n) == <<"0", "1", "2", "3", "4", "5", "6", "7", "8", "9">>[n + 1]

RECURSIVE Decimal(_)
Decimal(n) == IF n < 10 THEN <<Digit(n)>> ELSE Decimal(n \div 10) \o <<Digit(n % 10)>>

\* Display of the f64 hundredths / 100.0: the shortest decimal text that
\* reads back as the same number, hence no trailing zero and no bare point.
fmt_f64(hundredths) ==
    LET whole == hundredths \div 100
        frac  == hundredths % 100
    IN  Decimal(whole)
        \o (IF frac = 0 THEN <<>>
            ELSE IF frac % 10 = 0 THEN <<".", Digit(frac \div 10)>>
            ELSE <<".", Digit(frac \div 10), Digit(frac % 10)>>)

\* impl fmt::Display for Size: write!(f, "{} {}", rounded_size, units[index]).
fmt(bytes) ==
    LET index == scale(bytes, 0)
    IN  fmt_f64(rounded_hundredths(bytes, index)) \o <<" ">> \o units[index + 1]

\* What evaluating an expression gives: a value, or a panic.
Value(v) == [panic |-> FALSE, value |-> v]
Panic == [panic |-> TRUE, value |-> 0]

\* impl Add for Size: Self(self.0 + other.0).  When the sum passes the
\* largest u64 the addition panics in a build with overflow checks (the
\* dev profile) and wraps around in a build without (the release profile).
add(self, other, overflow_checks) ==
    IF other <= U64Max - self THEN Value(self + other)
    ELSE IF overflow_checks THEN Panic
    ELSE Value(self - (U64Max - other) - 1)

\* ------------------------------------------------------------- interface
\* usize is scaled to UsizeBits bits.
UsizeBits == 6
\* Longest output a command prints, in lines, and longest input typed.
MaxOutput == 28
MaxInput == 1

RECURSIVE Pow2(_)
Pow2(k) == IF k = 0 THEN 1 ELSE 2 * Pow2(k - 1)
UsizeMax == Pow2(UsizeBits) - 1

\* a - b and a + b on usize: past the ends of the range a build with
\* overflow checks panics and a build without wraps around.
usize_sub(a, b, overflow_checks) ==
    IF b <= a THEN Value(a - b)
    ELSE IF overflow_checks THEN Panic
    ELSE Value(a - b + UsizeMax + 1)

usize_add(a, b, overflow_checks) ==
    IF a + b <= UsizeMax THEN Value(a + b)
    ELSE IF overflow_checks THEN Panic
    ELSE Value(a + b - UsizeMax - 1)

\* The lines kept above the bottom of the view, and the step of a page.
ViewLines == 26
PageStep == 25

\* The characters typed: a blank and a letter.
Chars == {" ", "x"}

\* impl Default for App.  output is the number of lines of the Vec; status
\* and overflow_checks are the process running the App and its build.
default(overflow_checks) ==
    [input |-> <<>>, cursor_position |-> 0, input_mode |-> "Normal",
     output |-> 0, output_view_position |-> 0,
     status |-> "running", overflow_checks |-> overflow_checks]

\* ---------------------------------------------------------------- state
VARIABLES
    fs,         \* the filesystem the program runs on
    pc,         \* "new" | "exploring" | "built" | "failed" | "grouping"
    call,       \* Option: the path file_explorer has just been called on
    stack,      \* the directory frames of file_explorer, innermost last
    ret,        \* Option: [path, node] returned by the innermost call
    map,        \* FileTree::new's local map
    signature,  \* FileTree::new's local signature table
    result,     \* Option: the Result FileTree::new returned
    out,        \* Option: the last query and what it returned
    pending,    \* find_duplicates: paths of the table no worker has folded yet
    acc,        \* find_duplicates: each worker's local accumulator
    wstate,     \* find_duplicates: "idle" | "folding" | "done" | "gone"
    operands,   \* size.rs: the two Size values an expression is made of
    app         \* interface.rs: the App of the interactive shell

vars == <<fs, pc, call, stack, ret, map, signature, result, out, pending, acc, wstate,
          operands, app>>
treeVars == <<fs, call, stack, ret, map, signature, result>>
buildVars == <<pc, treeVars>>
queryVars == <<out, pending, acc, wstate>>
\* What belongs to the other programs of the crate.
elsewhere == <<operands, app>>

Frame(path, entries, children) ==
    [path |-> path, entries |-> entries, children |-> children]

Init ==
    /\ \E S \in PathSets(MaxNodes) : fs \in FileSystems(S)
    /\ pc = "new"
    /\ call = None
    /\ stack = <<>>
    /\ ret = None
    /\ map = EmptyMap
    /\ signature = EmptyMap
    /\ result = None
    /\ out = None
    /\ pending = {}
    /\ acc = [w \in Workers |-> EmptyMap]
    /\ wstate = [w \in Workers |-> "idle"]
    /\ operands = <<0, 0>>
    /\ app = default(TRUE)

\* FileTree::new, up to the call of file_explorer on the root.
NewStart ==
    /\ pc = "new"
    /\ pc' = "exploring"
    /\ call' = Some(RootPath)
    /\ UNCHANGED <<fs, stack, ret, map, signature, result, queryVars, elsewhere>>

\* An error leaves file_explorer through every `?` up to FileTree::new,
\* which returns it; the local maps are dropped with the frames.
Abort(kind) ==
    /\ pc' = "failed"
    /\ call' = None
    /\ stack' = <<>>
    /\ ret' = None
    /\ map' = EmptyMap
    /\ signature' = EmptyMap
    /\ result' = Some(Err(kind))
    /\ UNCHANGED <<fs, queryVars, elsewhere>>

\* fs::metadata(path)? fails.
ExploreMetadataErr ==
    /\ pc = "exploring" /\ call # None
    /\ LET o == metadata(fs, Unwrap(call)) IN
         /\ ~metadata_ok(o)
         /\ Abort(MetadataErrorKind(o.kind))

\* metadata.is_file(): signature, both inserts, Ok(File).
ExploreFile ==
    /\ pc = "exploring" /\ call # None
    /\ LET p == Unwrap(call)
           o == metadata(fs, p) IN
         /\ metadata_ok(o) /\ is_file(o) /\ o.readable
         /\ map' = InsertFile(map, p, Len(o.content))
         /\ signature' = InsertSignature(signature, p, o.content)
         /\ ret' = Some([path |-> p, node |-> File(Len(o.content))])
         /\ call' = None
         /\ UNCHANGED <<fs, pc, stack, result, queryVars, elsewhere>>

\* metadata.is_file() but calculate_signature(path)? fails.
ExploreSignatureErr ==
    /\ pc = "exploring" /\ call # None
    /\ LET o == metadata(fs, Unwrap(call)) IN
         /\ metadata_ok(o) /\ is_file(o) /\ ~o.readable
         /\ Abort("PermissionDenied")

\* metadata.is_dir(): read_dir succeeds, the loop over its entries starts.
ExploreDir ==
    /\ pc = "exploring" /\ call # None
    /\ LET p == Unwrap(call)
           o == metadata(fs, p) IN
         /\ metadata_ok(o) /\ ~is_file(o) /\ is_dir(o) /\ o.readable
         /\ stack' = Append(stack,
                Frame(p, [i \in 1..Len(o.entries) |-> dir_entry_path(fs, p, o.entries[i])], <<>>))
         /\ call' = None
         /\ UNCHANGED <<fs, pc, ret, map, signature, result, queryVars, elsewhere>>

\* metadata.is_dir() but fs::read_dir(path)? fails.
ExploreReadDirErr ==
    /\ pc = "exploring" /\ call # None
    /\ LET o == metadata(fs, Unwrap(call)) IN
         /\ metadata_ok(o) /\ ~is_file(o) /\ is_dir(o) /\ ~o.readable
         /\ Abort("PermissionDenied")

\* Neither a file nor a directory.
ExploreUnsupported ==
    /\ pc = "exploring" /\ call # None
    /\ LET o == metadata(fs, Unwrap(call)) IN
         /\ metadata_ok(o) /\ ~is_file(o) /\ ~is_dir(o)
         /\ Abort("Other")

\* The for loop takes the next entry and recurses on its path.
LoopNext ==
    /\ pc = "exploring" /\ call = None /\ ret = None
    /\ stack # <<>>
    /\ LET top == stack[Len(stack)] IN
         /\ top.entries # <<>>
         /\ call' = Some(Head(top.entries))
         /\ stack' = [stack EXCEPT ![Len(stack)].entries = Tail(top.entries)]
    /\ UNCHANGED <<fs, pc, ret, map, signature, result, queryVars, elsewhere>>

\* The recursive call returned: map.insert(entry_path, entry_node) and
\* children.push(entry_path).
LoopInsert ==
    /\ pc = "exploring" /\ ret # None
    /\ stack # <<>>
    /\ LET r == Unwrap(ret)
           top == stack[Len(stack)] IN
         /\ map' = InsertEntry(map, r.path, r.node)
         /\ stack' = [stack EXCEPT ![Len(stack)].children = Append(top.children, r.path)]
    /\ ret' = None
    /\ UNCHANGED <<fs, pc, call, signature, result, queryVars, elsewhere>>

\* The for loop is over: Ok(EntryNode::Directory(children)).
LoopEnd ==
    /\ pc = "exploring" /\ call = None /\ ret = None
    /\ stack # <<>>
    /\ LET top == stack[Len(stack)] IN
         /\ top.entries = <<>>
         /\ ret' = Some([path |-> top.path, node |-> Directory(top.children)])
         /\ stack' = SubSeq(stack, 1, Len(stack) - 1)
    /\ UNCHANGED <<fs, pc, call, map, signature, result, queryVars, elsewhere>>

\* file_explorer(root) returned Ok: insert the root, return the FileTree.
NewFinish ==
    /\ pc = "exploring" /\ ret # None
    /\ stack = <<>>
    /\ LET r == Unwrap(ret)
           m == InsertRoot(map, RootPath, r.node) IN
         /\ result' = Some(Ok([root |-> RootPath, map |-> m, signature |-> signature]))
         /\ map' = EmptyMap
         /\ signature' = EmptyMap
    /\ pc' = "built"
    /\ ret' = None
    /\ UNCHANGED <<fs, call, stack, queryVars, elsewhere>>

\* -------------------------------------------------------- query surface
get_root(t) == t.root

get_map_option(t, path) ==
    IF path \in DOMAIN t.map THEN Some(t.map[path]) ELSE None

\* get_children answering a file with an empty list.
get_children_or_empty(t, path) ==
    IF path \in DOMAIN t.map
    THEN Some(IF t.map[path].tag = "Directory" THEN t.map[path].children ELSE <<>>)
    ELSE None

get_children(t, path) ==
    IF path \in DOMAIN t.map /\ t.map[path].tag = "Directory"
    THEN Some(t.map[path].children)
    ELSE None

\* get_size adding up the files directly in the directory only.
get_size_shallow(t, path) ==
    IF path \notin DOMAIN t.map THEN None
    ELSE LET entry == t.map[path] IN
         IF entry.tag = "File" THEN Some(entry.size)
         ELSE LET files == SelectSeq(entry.children,
                      LAMBDA child : child \in DOMAIN t.map /\ t.map[child].tag = "File")
              IN  Some(SumSeq([i \in 1..Len(files) |-> t.map[files[i]].size]))

\* get_size folding the children with reduce, which has no value for an
\* empty directory.
RECURSIVE get_size_reduce(_, _)
get_size_reduce(t, path) ==
    IF path \notin DOMAIN t.map THEN None
    ELSE LET entry == t.map[path] IN
         IF entry.tag = "File" THEN Some(entry.size)
         ELSE LET present == SelectSeq(entry.children,
                      LAMBDA child : get_size_reduce(t, child) # None)
              IN  IF present = <<>> THEN None
                  ELSE Some(SumSeq([i \in 1..Len(present) |->
                                        Unwrap(get_size_reduce(t, present[i]))]))

\* filter_map over the children dropping the absent sizes, then sum().
RECURSIVE get_size(_, _)
get_size(t, path) ==
    IF path \notin DOMAIN t.map THEN None
    ELSE LET entry == t.map[path] IN
         IF entry.tag = "File" THEN Some(entry.size)
         ELSE LET enfants == entry.children
                  present == SelectSeq(enfants, LAMBDA child : get_size(t, child) # None)
              IN  Some(SumSeq([i \in 1..Len(present) |-> Unwrap(get_size(t, present[i]))]))

\* The FileTree the caller holds once FileTree::new returned Ok; Built
\* is the state it is returned in, before and after find_duplicates, which
\* borrows it immutably.
HasTree == pc \in {"built", "grouping"}
Built == pc = "built"
Tree == Unwrap(result).tree

\* The paths a caller asks about: every path of the filesystem and, below
\* each of them, the names that do not exist.
QueryPaths == (DOMAIN fs) \cup {Join(p, n) : p \in DOMAIN fs, n \in Names}

Answer(op, arg, val) == [op |-> op, arg |-> arg, val |-> val]

\* main and every test build a tree, put one question to it and drop it.
Fresh == pc = "built" /\ out = None

GetRoot ==
    /\ Fresh
    /\ out' = Some(Answer("get_root", RootPath, get_root(Tree)))
    /\ UNCHANGED <<buildVars, pending, acc, wstate, elsewhere>>

GetChildren ==
    /\ Fresh
    /\ \E path \in QueryPaths :
         out' = Some(Answer("get_children", path, get_children(Tree, path)))
    /\ UNCHANGED <<buildVars, pending, acc, wstate, elsewhere>>

GetSize ==
    /\ Fresh
    /\ \E path \in QueryPaths :
         out' = Some(Answer("get_size", path, get_size(Tree, path)))
    /\ UNCHANGED <<buildVars, pending, acc, wstate, elsewhere>>

GetMapOption ==
    /\ Fresh
    /\ \E path \in QueryPaths :
         out' = Some(Answer("get_map_option", path, get_map_option(Tree, path)))
    /\ UNCHANGED <<buildVars, pending, acc, wstate, elsewhere>>

\* files yielding every key of the index.
files_keys(t, order) == order

\* files(): self.map.iter() visits every key once, in the order of the
\* hash table (order); filter_map keeps the paths whose entry is a File.
files(t, order) == SelectSeq(order, LAMBDA path : t.map[path].tag = "File")

Files ==
    /\ Fresh
    /\ \E order \in EnumerationOrders(DOMAIN Tree.map) :
         out' = Some(Answer("files", RootPath, files(Tree, order)))
    /\ UNCHANGED <<buildVars, pending, acc, wstate, elsewhere>>

\* ------------------------------------------------------------ print_tree
\* The file name each entry name stands for, as the bytes of its text:
\* name 1 is "a.j" and name 2 is the hidden file ".j".
FileName(name) == IF name = 1 THEN <<97, 46, 106>> ELSE <<46, 106>>

\* The strings given to --filter: "j" and "J".
Filters == {<<106>>, <<74>>}

\* Ord of byte strings and of paths: component by component, a proper
\* prefix before its extensions.
RECURSIVE BytesLess(_, _)
BytesLess(a, b) ==
    IF b = <<>> THEN FALSE
    ELSE IF a = <<>> THEN TRUE
    ELSE IF Head(a) # Head(b) THEN Head(a) < Head(b)
    ELSE BytesLess(Tail(a), Tail(b))

RECURSIVE PathLess(_, _)
PathLess(p, q) ==
    IF q = <<>> THEN FALSE
    ELSE IF p = <<>> THEN TRUE
    ELSE IF Head(p) # Head(q) THEN BytesLess(FileName(Head(p)), FileName(Head(q)))
    ELSE PathLess(Tail(p), Tail(q))

\* Path::extension: nothing for a path without a file name, a name without
\* a dot, or a name whose only dot comes first; else what follows the last dot.
LastDot(text) ==
    LET dots == {i \in 1..Len(text) : text[i] = 46}
    IN  IF dots = {} THEN 0 ELSE CHOOSE i \in dots : \A j \in dots : j <= i

extension(path) ==
    IF path = RootPath THEN None
    ELSE LET text == FileName(path[Len(path)])
             dot  == LastDot(text)
         IN  IF dot <= 1 THEN None ELSE Some(SubSeq(text, dot + 1, Len(text)))

unwrap_or(o, fallback) == IF o = None THEN fallback ELSE Unwrap(o)

\* A stable sort puts an element behind every element that does not come
\* after it: x goes before the first of the places in after, or last.
Inserted(sorted, x, after) ==
    LET at == IF after = {} THEN Len(sorted) + 1
              ELSE CHOOSE i \in after : \A j \in after : i <= j
    IN  SubSeq(sorted, 1, at - 1) \o <<x>> \o SubSeq(sorted, at, Len(sorted))

\* sorted_children.sort(): by the Ord of paths.
sort(s) ==
    LET sorted[i \in 0..Len(s)] ==
            IF i = 0 THEN <<>>
            ELSE LET before == sorted[i - 1]
                 IN  Inserted(before, s[i],
                              {k \in 1..Len(before) : PathLess(s[i], before[k])})
    IN  sorted[Len(s)]

\* The comparator putting the smaller aggregate size first.
by_size_ascending(t, a, b) ==
    unwrap_or(get_size(t, a), 0) < unwrap_or(get_size(t, b), 0)

\* The comparator of show_lexicographic_recursive: get_size(b).cmp(get_size(a)).
by_size_descending(t, a, b) ==
    unwrap_or(get_size(t, b), 0) < unwrap_or(get_size(t, a), 0)

\* sorted_children.sort_by(|a, b| ...) of show_lexicographic_recursive.
sort_by(t, s) ==
    LET sorted[i \in 0..Len(s)] ==
            IF i = 0 THEN <<>>
            ELSE LET before == sorted[i - 1]
                 IN  Inserted(before, s[i],
                              {k \in 1..Len(before) : by_size_descending(t, s[i], before[k])})
    IN  sorted[Len(s)]

\* Number of spaces print_node indents one level by.
IndentWidth == 6

\* print_node without the indent.
print_node_flat(path, size, depth) ==
    [indent |-> 0, size |-> size, path |-> path]

\* print_node: one line, the indent repeated depth times, the size, the path.
print_node(path, size, depth) ==
    [indent |-> IndentWidth * depth, size |-> size, path |-> path]

\* The lines of the calls of a for loop, one after the other.
RECURSIVE Concat(_)
Concat(printed) ==
    IF printed = <<>> THEN <<>> ELSE Head(printed) \o Concat(Tail(printed))

RECURSIVE show_recursive(_, _, _)
show_recursive(t, path, depth) ==
    LET entry_node == get_map_option(t, path) IN
    IF entry_node = None THEN <<>>
    ELSE LET entry == Unwrap(entry_node) IN
         IF entry.tag = "File" THEN <<print_node(path, entry.size, depth)>>
         ELSE <<print_node(path, unwrap_or(get_size(t, path), 0), depth)>>
              \o Concat([i \in 1..Len(entry.children) |->
                             show_recursive(t, entry.children[i], depth + 1)])

RECURSIVE show_lexicographic_recursive(_, _, _)
show_lexicographic_recursive(t, path, depth) ==
    LET entry_node == get_map_option(t, path) IN
    IF entry_node = None THEN <<>>
    ELSE LET entry == Unwrap(entry_node) IN
         IF entry.tag = "File" THEN <<print_node(path, entry.size, depth)>>
         ELSE LET sorted_children ==
                      sort_by(t, entry.children)
              IN  <<print_node(path, unwrap_or(get_size(t, path), 0), depth)>>
                  \o Concat([i \in 1..Len(sorted_children) |->
                             show_lexicographic_recursive(t, sorted_children[i], depth + 1)])

\* The filtered policies printing an entry only when its extension matches.
prints_matching_only(entry, path, filter) == extension(path) = Some(filter)

\* The match arms of the filtered policies: a File whose extension is the
\* filter is printed, a Directory always, anything else never.
prints(entry, path, filter) ==
    \/ entry.tag = "File" /\ extension(path) = Some(filter)
    \/ entry.tag = "Directory"

RECURSIVE show_filtered_recursive(_, _, _, _)
show_filtered_recursive(t, path, filter, depth) ==
    LET entry_node == get_map_option(t, path) IN
    IF entry_node = None THEN <<>>
    ELSE LET entry == Unwrap(entry_node) IN
         IF ~prints(entry, path, filter) THEN <<>>
         ELSE IF entry.tag = "File" THEN <<print_node(path, entry.size, depth)>>
         ELSE <<print_node(path, unwrap_or(get_size(t, path), 0), depth)>>
              \o Concat([i \in 1..Len(entry.children) |->
                             show_filtered_recursive(t, entry.children[i], filter, depth + 1)])

RECURSIVE show_lexicographic_filtered_recursive(_, _, _, _)
show_lexicographic_filtered_recursive(t, path, filter, depth) ==
    LET entry_node == get_map_option(t, path) IN
    IF entry_node = None THEN <<>>
    ELSE LET entry == Unwrap(entry_node) IN
         IF ~prints(entry, path, filter) THEN <<>>
         ELSE IF entry.tag = "File" THEN <<print_node(path, entry.size, depth)>>
         ELSE LET sorted_children == sort(entry.children)
              IN  <<print_node(path, unwrap_or(get_size(t, path), 0), depth)>>
                  \o Concat([i \in 1..Len(sorted_children) |->
                             show_lexicographic_filtered_recursive(t, sorted_children[i], filter, depth + 1)])

show(t) == show_recursive(t, get_root(t), 0)
show_lexicographic(t) == show_lexicographic_recursive(t, get_root(t), 0)
show_filtered(t, filter, lexicographic_sort) ==
    IF lexicographic_sort
    THEN show_lexicographic_filtered_recursive(t, get_root(t), filter, 0)
    ELSE show_filtered_recursive(t, get_root(t), filter, 0)

Cli(filter, lexicographic_sort) ==
    [filter |-> filter, lexicographic_sort |-> lexicographic_sort]

\* main, Commands::Usage: the tree is built and shown under the policy the
\* options select; the lines printed are kept in out.
Usage ==
    /\ Fresh
    /\ \E filter \in {None} \cup {Some(f) : f \in Filters}, lexicographic_sort \in BOOLEAN :
         LET cli == Cli(filter, lexicographic_sort)
             printed == IF cli.filter # None
                        THEN show_filtered(Tree, Unwrap(cli.filter), cli.lexicographic_sort)
                        ELSE IF cli.lexicographic_sort THEN show_lexicographic(Tree)
                        ELSE show(Tree)
         IN  out' = Some(Answer("usage", cli, printed))
    /\ UNCHANGED <<buildVars, pending, acc, wstate, elsewhere>>

\* ------------------------------------------------------- find_duplicates
Lookup(m, k) == IF k \in DOMAIN m THEN m[k] ELSE <<>>

\* The fold closure: acc.entry(signature).or_insert_with(Vec::new).push(path).
FoldPush(a, path, sig) == Insert(a, sig, Append(Lookup(a, sig), path))

\* The reduce closure written with HashMap::extend: for a key both maps
\* hold, the list of acc2 replaces the list of acc1.
MergeExtend(acc1, acc2) ==
    [k \in (DOMAIN acc1) \cup (DOMAIN acc2) |->
        IF k \in DOMAIN acc2 THEN acc2[k] ELSE acc1[k]]

\* The reduce closure: every list of acc2 is appended to the list acc1
\* holds for the same key.
Merge(acc1, acc2) ==
    [k \in (DOMAIN acc1) \cup (DOMAIN acc2) |-> Lookup(acc1, k) \o Lookup(acc2, k)]

\* The filter written with paths.len() > 0.
FilterNonEmpty(m) == [k \in {x \in DOMAIN m : Len(m[x]) > 0} |-> m[k]]

\* into_iter().filter(|(_, paths)| paths.len() > 1).collect()
FilterDuplicates(m) == [k \in {x \in DOMAIN m : Len(m[x]) > 1} |-> m[k]]

\* find_duplicates clones the signature table and hands it to the workers,
\* each starting from the fold identity HashMap::new().
FindDuplicatesStart ==
    /\ Fresh
    /\ pc' = "grouping"
    /\ pending' = DOMAIN Tree.signature
    /\ acc' = [w \in Workers |-> EmptyMap]
    /\ wstate' = [w \in Workers |-> "folding"]
    /\ out' = None
    /\ UNCHANGED <<treeVars, elsewhere>>

\* One worker folds one more (path, signature) pair into its accumulator.
FoldStep ==
    /\ pc = "grouping"
    /\ \E w \in Workers, path \in pending :
         /\ wstate[w] = "folding"
         /\ acc' = [acc EXCEPT ![w] = FoldPush(acc[w], path, Tree.signature[path])]
         /\ pending' = pending \ {path}
    /\ UNCHANGED <<buildVars, out, wstate, elsewhere>>

\* A worker's partition is exhausted; the pairs left belong to the others.
FoldDone ==
    /\ pc = "grouping"
    /\ \E w \in Workers :
         /\ wstate[w] = "folding"
         /\ pending = {} \/ \E v \in Workers \ {w} : wstate[v] = "folding"
         /\ wstate' = [wstate EXCEPT ![w] = "done"]
    /\ UNCHANGED <<buildVars, out, pending, acc, elsewhere>>

\* Two finished accumulators are reduced into one: acc2 is consumed (its
\* worker is "gone"; what it held stays on record until the call returns).
ReduceStep ==
    /\ pc = "grouping"
    /\ \E i \in Workers, j \in Workers :
         /\ i # j
         /\ wstate[i] = "done" /\ wstate[j] = "done"
         /\ acc' = [acc EXCEPT ![i] = Merge(acc[i], acc[j])]
         /\ wstate' = [wstate EXCEPT ![j] = "gone"]
    /\ UNCHANGED <<buildVars, out, pending, elsewhere>>

\* The last accumulator is filtered and returned.
FindDuplicatesFinish ==
    /\ pc = "grouping"
    /\ \E w \in Workers :
         /\ wstate[w] = "done"
         /\ \A v \in Workers \ {w} : wstate[v] = "gone"
         /\ out' = Some(Answer("find_duplicates", RootPath, FilterDuplicates(acc[w])))
    /\ pc' = "built"
    /\ pending' = {}
    /\ acc' = [w \in Workers |-> EmptyMap]
    /\ wstate' = [w \in Workers |-> "idle"]
    /\ UNCHANGED <<treeVars, elsewhere>>

Next ==
    \/ NewStart
    \/ ExploreMetadataErr
    \/ ExploreFile
    \/ ExploreSignatureErr
    \/ ExploreDir
    \/ ExploreReadDirErr
    \/ ExploreUnsupported
    \/ LoopNext
    \/ LoopInsert
    \/ LoopEnd
    \/ NewFinish
    \/ GetRoot
    \/ GetChildren
    \/ GetSize
    \/ GetMapOption
    \/ Files
    \/ Usage
    \/ FindDuplicatesStart
    \/ FoldStep
    \/ FoldDone
    \/ ReduceStep
    \/ FindDuplicatesFinish

Spec == Init /\ [][Next]_vars

\* ------------------------------------------- the builder over linked trees
InitLink ==
    /\ \E S \in PathSets(MaxNodes) : fs \in LinkedFileSystems(S)
    /\ pc = "new"
    /\ call = None
    /\ stack = <<>>
    /\ ret = None
    /\ map = EmptyMap
    /\ signature = EmptyMap
    /\ result = None
    /\ out = None
    /\ pending = {}
    /\ acc = [w \in Workers |-> EmptyMap]
    /\ wstate = [w \in Workers |-> "idle"]
    /\ operands = <<0, 0>>
    /\ app = default(TRUE)

\* FileTree::new alone.
NextNew ==
    \/ NewStart
    \/ ExploreMetadataErr
    \/ ExploreFile
    \/ ExploreSignatureErr
    \/ ExploreDir
    \/ ExploreReadDirErr
    \/ ExploreUnsupported
    \/ LoopNext
    \/ LoopInsert
    \/ LoopEnd
    \/ NewFinish

SpecLink == InitLink /\ [][NextNew]_vars

\* FileTree::new is one sequential computation that blocks nowhere: a step
\* it can take, it takes.
FairSpecLink == SpecLink /\ WF_vars(NextNew)

\* ------------------------------------------------- Size: the expressions
\* The variables of the indexer while another program of the crate runs.
TreeAtRest ==
    /\ fs = [p \in {RootPath} |-> LeafObj("missing")]
    /\ call = None
    /\ stack = <<>>
    /\ ret = None
    /\ map = EmptyMap
    /\ signature = EmptyMap
    /\ result = None
    /\ out = None
    /\ pending = {}
    /\ acc = [w \in Workers |-> EmptyMap]
    /\ wstate = [w \in Workers |-> "idle"]

\* The byte counts expressions are made of: those of the tests of size.rs,
\* the ends of the range, and the counts around each change of unit and
\* around a change of the second decimal.
SizeInputs ==
    {0, 1, 1500, 3000, 2411724, U64Max - 1, U64Max}
    \cup {Pow1024(k) + e : k \in 1..3, e \in {-1, 0, 1}}
    \cup {1029, 1030, 1152, 1536, 1048570, 1048571}

InitSize ==
    /\ TreeAtRest
    /\ pc = "size"
    /\ operands \in SizeInputs \X SizeInputs
    /\ app = default(TRUE)

\* Size::new(a) + Size::new(b), in either build.
Add ==
    /\ pc = "size" /\ out = None
    /\ \E overflow_checks \in BOOLEAN :
         out' = Some(Answer("add", operands,
                            add(operands[1], operands[2], overflow_checks)))
    /\ UNCHANGED <<buildVars, pending, acc, wstate, elsewhere>>

\* format!("{}", Size::new(a)).
Display ==
    /\ pc = "size" /\ out = None
    /\ out' = Some(Answer("display", operands[1], fmt(operands[1])))
    /\ UNCHANGED <<buildVars, pending, acc, wstate, elsewhere>>

NextSize ==
    \/ Add
    \/ Display

SpecSize == InitSize /\ [][NextSize]_vars

\* ------------------------------------------------- interface: the key events
InitShell ==
    /\ TreeAtRest
    /\ pc = "shell"
    /\ operands = <<0, 0>>
    /\ \E overflow_checks \in BOOLEAN : app = default(overflow_checks)

Running == pc = "shell" /\ app.status = "running"
Normal == Running /\ app.input_mode = "Normal"
\* InputMode::Editing if key.kind == KeyEventKind::Press
Editing == Running /\ app.input_mode = "Editing"

ShellStep(next) ==
    /\ app' = next
    /\ UNCHANGED <<buildVars, queryVars, operands>>

\* output_view_position = v, or the panic that came in its place.
Scrolled(v) ==
    IF v.panic THEN [app EXCEPT !.status = "panicked"]
    ELSE [app EXCEPT !.output_view_position = v.value]

clamp_cursor(a, new_cursor_pos) ==
    IF new_cursor_pos < 0 THEN 0
    ELSE IF new_cursor_pos > Len(a.input) THEN Len(a.input)
    ELSE new_cursor_pos

\* saturating_sub(1) and saturating_add(1), then clamp_cursor.
move_cursor_left(a) ==
    [a EXCEPT !.cursor_position =
        clamp_cursor(a, IF a.cursor_position = 0 THEN 0 ELSE a.cursor_position - 1)]
move_cursor_right(a) ==
    [a EXCEPT !.cursor_position =
        clamp_cursor(a, IF a.cursor_position = UsizeMax THEN UsizeMax
                        ELSE a.cursor_position + 1)]

enter_char(a, new_char) ==
    move_cursor_right(
        [a EXCEPT !.input = SubSeq(a.input, 1, a.cursor_position) \o <<new_char>>
                            \o SubSeq(a.input, a.cursor_position + 1, Len(a.input))])

delete_char(a) ==
    IF a.cursor_position # 0
    THEN move_cursor_left(
             [a EXCEPT !.input = SubSeq(a.input, 1, a.cursor_position - 1)
                                 \o SubSeq(a.input, a.cursor_position + 1, Len(a.input))])
    ELSE a

\* input.trim().is_empty()
trim_is_empty(input) == \A i \in 1..Len(input) : input[i] = " "

\* run_shell_command: the output is cleared; for an input that is not
\* blank the command is run and its lines (lines of them), or the one line
\* of an error, are pushed, the input cleared and the cursor reset.
run_shell_command(a, lines) ==
    IF ~trim_is_empty(a.input)
    THEN [a EXCEPT !.output = lines, !.input = <<>>, !.cursor_position = 0]
    ELSE [a EXCEPT !.output = 0]

NormalE ==
    /\ Normal
    /\ ShellStep([app EXCEPT !.input_mode = "Editing"])

NormalQ ==
    /\ Normal
    /\ ShellStep([app EXCEPT !.status = "quit"])

NormalUp ==
    /\ Normal
    /\ ShellStep(IF app.output_view_position > 0
                 THEN [app EXCEPT !.output_view_position = @ - 1]
                 ELSE app)

NormalDown ==
    /\ Normal
    /\ LET bound == usize_sub(app.output, ViewLines, app.overflow_checks) IN
       ShellStep(IF bound.panic THEN Scrolled(bound)
                 ELSE IF app.output_view_position < bound.value
                 THEN Scrolled(usize_add(app.output_view_position, 1, app.overflow_checks))
                 ELSE app)

NormalRight ==
    /\ Normal
    /\ LET bound == usize_sub(app.output, ViewLines, app.overflow_checks) IN
       ShellStep(IF bound.panic THEN Scrolled(bound)
                 ELSE IF app.output_view_position < bound.value
                 THEN Scrolled(usize_add(app.output_view_position, PageStep,
                                         app.overflow_checks))
                 ELSE Scrolled(usize_sub(app.output, ViewLines, app.overflow_checks)))

NormalLeft ==
    /\ Normal
    /\ ShellStep(IF app.output_view_position > PageStep
                 THEN [app EXCEPT !.output_view_position = @ - PageStep]
                 ELSE [app EXCEPT !.output_view_position = 0])

EditingEnter ==
    /\ Editing
    /\ \E lines \in 0..MaxOutput : ShellStep(run_shell_command(app, lines))

EditingChar ==
    /\ Editing
    /\ Len(app.input) < MaxInput
    /\ \E to_insert \in Chars : ShellStep(enter_char(app, to_insert))

EditingBackspace ==
    /\ Editing
    /\ ShellStep(delete_char(app))

EditingLeft ==
    /\ Editing
    /\ ShellStep(move_cursor_left(app))

EditingRight ==
    /\ Editing
    /\ ShellStep(move_cursor_right(app))

EditingEsc ==
    /\ Editing
    /\ ShellStep([app EXCEPT !.input_mode = "Normal"])

EditingUp ==
    /\ Editing
    /\ ShellStep(IF app.output_view_position > 0
                 THEN [app EXCEPT !.output_view_position = @ - 1]
                 ELSE app)

EditingDown ==
    /\ Editing
    /\ LET bound == usize_sub(app.output, 1, app.overflow_checks) IN
       ShellStep(IF bound.panic THEN Scrolled(bound)
                 ELSE IF app.output_view_position < bound.value
                 THEN Scrolled(usize_add(app.output_view_position, 1, app.overflow_checks))
                 ELSE app)

NextShell ==
    \/ NormalE
    \/ NormalQ
    \/ NormalUp
    \/ NormalDown
    \/ NormalRight
    \/ NormalLeft
    \/ EditingEnter
    \/ EditingChar
    \/ EditingBackspace
    \/ EditingLeft
    \/ EditingRight
    \/ EditingEsc
    \/ EditingUp
    \/ EditingDown

SpecShell == InitShell /\ [][NextShell]_vars

\* ------------------------------------------------------------ properties
FilePaths(t) == {p \in DOMAIN t.map : t.map[p].tag = "File"}
DirPaths(t) == {p \in DOMAIN t.map : t.map[p].tag = "Directory"}

Answered(op) == out # None /\ Unwrap(out).op = op
OutArg == Unwrap(out).arg
OutVal == Unwrap(out).val

Occurrences(s, x) == Cardinality({i \in 1..Len(s) : s[i] = x})

\* C1 - Duplicate correctness: in what find_duplicates returns, a file path
\* is in some group exactly when another file path of the tree has its
\* signature; every group has two members or more, all of them files whose
\* signature is the group's key; without a repeated signature the result
\* is empty.
DuplicateCorrectness ==
    Answered("find_duplicates") =>
        LET D == OutVal
            sig == Tree.signature
            Grouped(p) == \E k \in DOMAIN D : p \in Range(D[k])
            Repeated(p) == \E q \in FilePaths(Tree) \ {p} : sig[q] = sig[p]
        IN  /\ \A p \in FilePaths(Tree) : Grouped(p) <=> Repeated(p)
            /\ \A k \in DOMAIN D :
                 /\ Len(D[k]) >= 2
                 /\ \A p \in Range(D[k]) : p \in FilePaths(Tree) /\ sig[p] = k
            /\ (\A p \in FilePaths(Tree) : ~Repeated(p)) => D = EmptyMap

\* A result with a group of two files that lie in different directories.
DuplicateCorrectnessWitness ==
    /\ Answered("find_duplicates")
    /\ \E k \in DOMAIN OutVal : \E p, q \in Range(OutVal[k]) : Len(p) # Len(q)

\* C2 - Deterministic grouping: while the workers fold and reduce, every
\* path of the signature table is either not folded yet or held exactly
\* once, under its own signature, by the accumulators still alive; and the
\* groups returned, read as sets of paths keyed by signature, are the one
\* grouping the signature table determines, with no path twice in a group.
LiveWorkers == {w \in Workers : wstate[w] # "gone"}
Held(path) ==
    LET k == Tree.signature[path]
    IN  SumSeq([w \in Workers |->
            IF w \in LiveWorkers THEN Occurrences(Lookup(acc[w], k), path) ELSE 0])
GroupOf(sig, k) == {p \in DOMAIN sig : sig[p] = k}

IsBelow(p, d) == Len(d) < Len(p) /\ SubSeq(p, 1, Len(d)) = d

RECURSIVE SumOver(_, _)
SumOver(S, f) ==
    IF S = {} THEN 0
    ELSE LET x == CHOOSE y \in S : TRUE IN f[x] + SumOver(S \ {x}, f)

\* Depth-first pre-order of the filesystem, entries in enumeration order.
RECURSIVE DfsOrder(_, _), DfsEntries(_, _, _)
DfsOrder(f, p) == <<p>> \o DfsEntries(f, p, 1)
DfsEntries(f, p, i) ==
    IF i > Len(f[p].entries) THEN <<>>
    ELSE DfsOrder(f, Join(p, f[p].entries[i])) \o DfsEntries(f, p, i + 1)

Obstructed(o) == o.kind \in {"other", "denied", "missing"} \/ ~o.readable
ObstructionKind(o) ==
    CASE o.kind = "missing" -> "NotFound"
      [] o.kind = "other"   -> "Other"
      [] OTHER              -> "PermissionDenied"
Obstructions == {p \in DOMAIN fs : Obstructed(fs[p])}
FirstObstruction ==
    LET order == DfsOrder(fs, RootPath)
        first == CHOOSE i \in 1..Len(order) :
                    /\ order[i] \in Obstructions
                    /\ \A j \in 1..(i - 1) : order[j] \notin Obstructions
    IN  order[first]

\* The entry the index must hold for a path of the filesystem.
EntryFor(p) ==
    IF fs[p].kind = "file" THEN File(Len(fs[p].content))
    ELSE Directory([i \in 1..Len(fs[p].entries) |-> Join(p, fs[p].entries[i])])

\* C3 - Aggregation invariant: the size of a directory is the sum of the
\* sizes of its children, hence the sum of the stored sizes of the files
\* below it, and 0 when it has no children; get_size answers that.
StoredBelow(t, d) ==
    SumOver({p \in FilePaths(t) : IsBelow(p, d)}, [p \in FilePaths(t) |-> t.map[p].size])

AggregationInvariant ==
    /\ Built =>
         \A d \in DirPaths(Tree) :
            LET ch == Tree.map[d].children IN
            /\ \A i \in 1..Len(ch) : get_size(Tree, ch[i]) # None
            /\ get_size(Tree, d) =
                 Some(SumSeq([i \in 1..Len(ch) |-> Unwrap(get_size(Tree, ch[i]))]))
            /\ get_size(Tree, d) = Some(StoredBelow(Tree, d))
            /\ ch = <<>> => get_size(Tree, d) = Some(0)
    /\ (Answered("get_size") /\ OutArg \in DirPaths(Tree)) =>
         OutVal = Some(StoredBelow(Tree, OutArg))

\* get_size asked of a directory with several children, one of them a
\* directory that holds bytes itself.
AggregationInvariantWitness ==
    /\ Answered("get_size")
    /\ OutArg \in DirPaths(Tree)
    /\ Len(Tree.map[OutArg].children) >= 2
    /\ \E c \in Range(Tree.map[OutArg].children) :
         c \in DirPaths(Tree) /\ get_size(Tree, c) \notin {None, Some(0)}
    /\ OutVal \notin {None, Some(0)}

\* C4 - All-or-nothing build: FileTree::new returns a tree only when no
\* path of the subtree is obstructed, and then every path is indexed with
\* its entry; when some path is obstructed the only thing it returns is the
\* error of the first obstruction in depth-first order, without a tree.
AllOrNothing ==
    /\ HasTree <=> (result # None /\ Unwrap(result).ok)
    /\ (pc = "failed") <=> (result # None /\ ~Unwrap(result).ok)
    /\ Built =>
         /\ Obstructions = {}
         /\ DOMAIN Tree.map = DOMAIN fs
         /\ \A p \in DOMAIN fs : Tree.map[p] = EntryFor(p)
    /\ (Obstructions # {} /\ result # None) =>
         Unwrap(result) = Err(ObstructionKind(fs[FirstObstruction]))
    /\ (Obstructions = {} /\ result # None) => Unwrap(result).ok

\* A failed build over a filesystem with obstructions of two kinds, the
\* first of them below the root.
AllOrNothingWitness ==
    /\ pc = "failed"
    /\ FirstObstruction # RootPath
    /\ \E q \in Obstructions :
         ObstructionKind(fs[q]) # ObstructionKind(fs[FirstObstruction])

\* C5 - Nonexistent root: over a root path that does not exist,
\* FileTree::new never returns a tree and what it returns is the error of
\* kind NotFound.
NonexistentRootFails ==
    fs[RootPath].kind = "missing" =>
        /\ ~HasTree
        /\ result # None => Unwrap(result) = Err("NotFound")
        /\ pc = "failed" => result # None

NonexistentRootFailsWitness ==
    /\ fs[RootPath].kind = "missing"
    /\ pc = "failed"
    /\ result = Some(Err("NotFound"))

\* C6 - Reachability invariant: every path in the child list of a
\* directory of the tree is a key of the index, and get_map_option finds it.
ChildPaths(t) == UNION {Range(t.map[d].children) : d \in DirPaths(t)}

ReachabilityInvariant ==
    /\ Built => \A p \in ChildPaths(Tree) : get_map_option(Tree, p) # None
    /\ (Answered("get_map_option") /\ OutArg \in ChildPaths(Tree)) => OutVal # None

\* get_map_option asked of a directory listed as the child of another.
ReachabilityInvariantWitness ==
    /\ Answered("get_map_option")
    /\ OutArg \in ChildPaths(Tree)
    /\ OutVal # None /\ Unwrap(OutVal).tag = "Directory"

\* C7 - The keys of the index are the root and what children edges reach
\* from it: the root is a key, and no key is unreachable.
RECURSIVE ReachFrom(_, _, _)
ReachFrom(t, frontier, seen) ==
    IF frontier = {} THEN seen
    ELSE LET next == UNION {IF p \in DOMAIN t.map /\ t.map[p].tag = "Directory"
                            THEN Range(t.map[p].children) ELSE {} : p \in frontier}
         IN  ReachFrom(t, next \ (seen \cup frontier), seen \cup frontier)
Reachable(t) == ReachFrom(t, {t.root}, {})

KeysAreReachable ==
    Built =>
        /\ get_root(Tree) \in DOMAIN Tree.map
        /\ DOMAIN Tree.map = Reachable(Tree)

\* A tree whose root is a directory with entries two levels down.
KeysAreReachableWitness ==
    /\ pc = "built"
    /\ Tree.map[RootPath].tag = "Directory"
    /\ \E p \in DOMAIN Tree.map : Len(p) >= 2

\* C8 - Signatures and index agree: the paths with a signature are the
\* paths whose entry is a File; no directory has one.
SignaturesAgree ==
    Built =>
        /\ DOMAIN Tree.signature = FilePaths(Tree)
        /\ \A d \in DirPaths(Tree) : d \notin DOMAIN Tree.signature

\* A tree with a directory below the root and an empty file.
SignaturesAgreeWitness ==
    /\ pc = "built"
    /\ \E d \in DirPaths(Tree) : d # RootPath
    /\ \E p \in FilePaths(Tree) : Tree.map[p].size = 0 /\ p \in DOMAIN Tree.signature

\* C9 - get_children is present exactly for the keys whose entry is a
\* Directory, and is then the stored child list, which lists the entries
\* of that directory in the order read_dir gave them; for a File and for
\* a path that is no key it is absent.
GetChildrenContract ==
    Answered("get_children") =>
        /\ OutVal # None <=> (OutArg \in DOMAIN Tree.map /\ Tree.map[OutArg].tag = "Directory")
        /\ OutVal # None =>
             /\ Unwrap(OutVal) = Tree.map[OutArg].children
             /\ OutArg \in DOMAIN fs /\ fs[OutArg].kind = "dir"
             /\ Unwrap(OutVal) = [i \in 1..Len(fs[OutArg].entries) |->
                                     Join(OutArg, fs[OutArg].entries[i])]
        /\ (OutArg \in DOMAIN fs /\ fs[OutArg].kind = "file") => OutVal = None
        /\ OutArg \notin DOMAIN fs => OutVal = None

\* get_children asked of a directory with two entries.
GetChildrenContractWitness ==
    /\ Answered("get_children")
    /\ OutVal # None /\ Len(Unwrap(OutVal)) = 2

\* C10 - get_size is present for every key of the index, for a File the
\* byte length stored at build time, and absent for every other path.
GetSizeTotal ==
    Answered("get_size") =>
        /\ OutArg \in DOMAIN Tree.map => OutVal # None
        /\ OutArg \in FilePaths(Tree) => OutVal = Some(Len(fs[OutArg].content))
        /\ OutArg \notin DOMAIN Tree.map => OutVal = None

\* get_size asked of a file that holds bytes.
GetSizeTotalWitness ==
    /\ Answered("get_size")
    /\ OutArg \in FilePaths(Tree)
    /\ OutVal # None /\ Unwrap(OutVal) > 0

\* C11 - files() yields exactly the keys of the index whose entry is a
\* File: every File path once, and no Directory path.
FilesContract ==
    Answered("files") =>
        /\ Range(OutVal) = FilePaths(Tree)
        /\ Len(OutVal) = Cardinality(FilePaths(Tree))
        /\ \A i \in 1..Len(OutVal) : OutVal[i] \notin DirPaths(Tree)
        /\ Range(OutVal) = {p \in DOMAIN fs : fs[p].kind = "file"}

\* files() asked of a tree with two files below a sub-directory.
FilesContractWitness ==
    /\ Answered("files")
    /\ Len(OutVal) = 2
    /\ Cardinality(DirPaths(Tree)) = 2

\* ------------------------------------------------------ the usage command
Parent(p) == SubSeq(p, 1, Len(p) - 1)
LinePaths(lines) == [i \in 1..Len(lines) |-> lines[i].path]
\* Lines i and j, i printed first, are those of two children of one directory.
Siblings(lines, i, j) ==
    /\ i < j
    /\ lines[i].path # RootPath /\ lines[j].path # RootPath
    /\ Parent(lines[i].path) = Parent(lines[j].path)
IndexOf(s, x) == CHOOSE i \in 1..Len(s) : s[i] = x
\* The aggregate size of an entry of the index, from the filesystem.
AggregateOf(p) ==
    IF fs[p].kind = "file" THEN Len(fs[p].content)
    ELSE SumOver({q \in DOMAIN fs : fs[q].kind = "file" /\ IsBelow(q, p)},
                 [q \in DOMAIN fs |-> Len(fs[q].content)])
\* The file name of p is a non-empty stem, a dot, and f, f holding no dot.
HasExtension(p, f) ==
    /\ p # RootPath
    /\ LET text == FileName(p[Len(p)])
           stem == Len(text) - Len(f) - 1
       IN  /\ stem >= 1
           /\ text[stem + 1] = 46
           /\ SubSeq(text, stem + 2, Len(text)) = f
           /\ 46 \notin Range(f)

\* C12 - Lexicographic policy: when --lexicographic-sort is given to the
\* usage command, with or without a filter, the children of every
\* directory are visited in ascending path order.
LexicographicPolicy ==
    (Answered("usage") /\ OutArg.lexicographic_sort) =>
        \A i, j \in 1..Len(OutVal) :
            Siblings(OutVal, i, j) => PathLess(OutVal[i].path, OutVal[j].path)

\* C13 - Extension filter: under a filter, sorted or not, a File is printed
\* exactly when its extension is the filter, and every Directory of the
\* tree is printed and descended into whatever its name.
ExtensionFilter ==
    (Answered("usage") /\ OutArg.filter # None) =>
        LET filter  == Unwrap(OutArg.filter)
            emitted == Range(LinePaths(OutVal))
        IN  /\ \A p \in FilePaths(Tree) : p \in emitted <=> HasExtension(p, filter)
            /\ DirPaths(Tree) \subseteq emitted
            /\ emitted \subseteq DOMAIN Tree.map
            /\ Len(OutVal) = Cardinality(emitted)

\* A filtered listing printing a file two levels down, below a directory
\* whose own name has no extension, and leaving another file out.
ExtensionFilterWitness ==
    /\ Answered("usage") /\ OutArg.filter # None
    /\ \E i \in 1..Len(OutVal) :
          /\ OutVal[i].path \in FilePaths(Tree)
          /\ Len(OutVal[i].path) = 2
          /\ extension(Parent(OutVal[i].path)) = None
    /\ \E p \in FilePaths(Tree) : p \notin Range(LinePaths(OutVal))

NaturalPolicy ==
    (Answered("usage") /\ OutArg.filter = None /\ ~OutArg.lexicographic_sort) =>
        /\ LinePaths(OutVal) = DfsOrder(fs, RootPath)
        /\ Range(LinePaths(OutVal)) = Reachable(Tree)
        /\ Len(OutVal) = Cardinality(Reachable(Tree))
        /\ \A i \in 1..Len(OutVal) :
              /\ OutVal[i].indent = IndentWidth * (Len(OutVal[i].path) - Len(Tree.root))
              /\ OutVal[i].size = AggregateOf(OutVal[i].path)
        /\ \A i, j \in 1..Len(OutVal) :
              /\ IsBelow(OutVal[j].path, OutVal[i].path) => i < j
              /\ Siblings(OutVal, i, j) =>
                    LET stored == Tree.map[Parent(OutVal[i].path)].children
                    IN  IndexOf(stored, OutVal[i].path) < IndexOf(stored, OutVal[j].path)

\* A listing that reaches a file holding bytes two levels down, after a
\* sibling of its directory.
NaturalPolicyWitness ==
    /\ Answered("usage") /\ OutArg.filter = None /\ ~OutArg.lexicographic_sort
    /\ Len(OutVal) = 4
    /\ \E i \in 1..Len(OutVal) :
          /\ OutVal[i].indent = 2 * IndentWidth
          /\ OutVal[i].size > 0

\* ------------------------------------------------------- Size, displayed
DigitValue(c) == CHOOSE n \in 0..9 : Digit(n) = c
RECURSIVE DecimalValue(_)
DecimalValue(text) ==
    IF text = <<>> THEN 0
    ELSE 10 * DecimalValue(SubSeq(text, 1, Len(text) - 1)) + DigitValue(text[Len(text)])
PointAt(text) ==
    IF "." \in Range(text) THEN CHOOSE i \in 1..Len(text) : text[i] = "." ELSE Len(text) + 1
\* The number a decimal text denotes, in hundredths.
Hundredths(text) ==
    LET point == PointAt(text)
        frac  == SubSeq(text, point + 1, Len(text))
    IN  100 * DecimalValue(SubSeq(text, 1, point - 1))
        + (IF Len(frac) = 0 THEN 0
           ELSE IF Len(frac) = 1 THEN 10 * DecimalValue(frac)
           ELSE DecimalValue(frac))
EndsWith(text, suffix) ==
    /\ Len(suffix) <= Len(text)
    /\ SubSeq(text, Len(text) - Len(suffix) + 1, Len(text)) = suffix
Abs(n) == IF n < 0 THEN -n ELSE n

SizeAddition ==
    Answered("add") =>
        LET a == OutArg[1]
            b == OutArg[2]
        IN  /\ ~OutVal.panic
            /\ OutVal.value >= a /\ OutVal.value >= b
            /\ OutVal.value - a = b
            /\ \A overflow_checks \in BOOLEAN :
                  /\ add(a, b, overflow_checks) = add(b, a, overflow_checks)
                  /\ add(a, 0, overflow_checks) = Value(a)
                  /\ add(0, b, overflow_checks) = Value(b)

\* C19 - In the interactive shell, after any sequence of key events the
\* view position stays within 0..output.len(), and no key event makes the
\* computation of the scroll bound underflow, whether the output is
\* shorter than the view, empty, or was replaced by a shorter one.
ScrollWithinOutput ==
    pc = "shell" =>
        /\ app.status # "panicked"
        /\ 0 <= app.output_view_position
        /\ app.output_view_position <= app.output

\* ------------------------------------------------- links back to an ancestor
Links(f) == {p \in DOMAIN f : f[p].kind = "link"}
\* No directory of the index is reached again from its own children.
Acyclic(t) ==
    \A d \in DirPaths(t) : d \notin ReachFrom(t, Range(t.map[d].children), {})
\* The longest chain of calls of file_explorer: between two links followed
\* a path goes down through objects that exist.
DepthBound == MaxNodes * (MaxSymlinks + 1)

\* The tree returned holds no cycle and get_size answers on every key of
\* it; while the build runs, every call of file_explorer is on a path
\* strictly below the paths of the calls it is nested in, and the nesting
\* is bounded.
NoCycle ==
    /\ Built =>
          /\ Acyclic(Tree)
          /\ \A d \in DirPaths(Tree) :
                \A c \in Range(Tree.map[d].children) : IsBelow(c, d)
          /\ Links(fs) = {}
          /\ \A p \in DOMAIN Tree.map : get_size(Tree, p) # None
    /\ pc = "exploring" =>
          /\ Len(stack) <= DepthBound
          /\ \A i, j \in 1..Len(stack) :
                i < j => IsBelow(stack[j].path, stack[i].path)
          /\ (call # None /\ stack # <<>>) =>
                IsBelow(Unwrap(call), stack[Len(stack)].path)

BuildReturned == pc \in {"built", "failed"}

\* C18 - The children relation of every tree FileTree::new returns holds no
\* cycle, also when the filesystem holds a link leading back to an ancestor
\* directory; the build, and get_size on every key, terminate.
CycleFree == []NoCycle /\ <>BuildReturned

\* The build of a filesystem holding a link to an ancestor has ended, with
\* the error of the OS giving up on the links.
CycleFreeWitness ==
    /\ Links(fs) # {}
    /\ pc = "failed"
    /\ result = Some(Err("FilesystemLoop"))

====
